---- MODULE Spec2Model ----
(***************************************************************************)
(* A model of the MoveAccounts migration utility:                          *)
(*   - load_accounts_to_database.js : the Node loader (CSV -> upsert) and  *)
(*     the procedural feature-value extractor extractDeviceKitIds;         *)
(*   - load_accounts.sql            : the declarative variant of the same  *)
(*     transform.                                                          *)
(* Text is modelled as a sequence of character codes (ASCII / UTF-16 code  *)
(* units), so that splitting, trimming, hex decoding and integer parsing   *)
(* are computed the way the code computes them.                            *)
(*                                                                         *)
(* The storage is PostgreSQL, reached through node-postgres: a statement   *)
(* that fails inside BEGIN..COMMIT aborts the transaction, COMMIT of an    *)
(* aborted transaction rolls it back, CURRENT_TIMESTAMP is the start of    *)
(* the transaction, and a lost connection makes every later call fail.     *)
(* The SIGINT and SIGTERM handlers are left out: no run of the model is    *)
(* interrupted.                                                            *)
(***************************************************************************)
EXTENDS Integers, Sequences, FiniteSets, TLC

(***************************************************************************)
(* Bounds of the model.                                                    *)
(***************************************************************************)
\* the number of tokens joined into one feature_value field
MaxTokens == 2
\* the number of free rows at the head of a CSV file
MaxPrefix == 2
\* the number of process invocations (runs of main) against one database
MaxRuns == 2
\* the connection may be lost before any of the first MaxFaultAt storage
\* calls of a run
MaxFaultAt == 8

(***************************************************************************)
(* Character codes.                                                        *)
(***************************************************************************)
Tab == 9
Newline == 10
Space == 32
Plus == 43
Comma == 44
Minus == 45
Dot == 46
Semicolon == 59
Pipe == 124
\* U+FFFD, what Buffer.toString('utf8') puts for a byte that is not UTF-8
ReplacementChar == 65533

\* a text cell: absent (JavaScript undefined, SQL NULL) or a string
Absent == [present |-> FALSE, text |-> <<>>]

Str(s) == [present |-> TRUE, text |-> s]

\* a delimiter list that lacks the tab
delimitersWithoutTab == <<Comma, Semicolon, Pipe, Newline>>

\* delimiters, in the order the extractor applies them
delimiters == <<Comma, Semicolon, Pipe, Newline, Tab>>

(***************************************************************************)
(* String primitives of JavaScript.                                        *)
(***************************************************************************)
\* WhiteSpace and LineTerminator code units of ECMAScript (String.prototype.trim)
IsJsSpace(c) ==
    \/ c \in {9, 10, 11, 12, 13, 32, 160, 5760, 8232, 8233, 8239, 8287, 12288, 65279}
    \/ (c >= 8192 /\ c <= 8202)

IsDigit(c) == c >= 48 /\ c <= 57

\* String.prototype.trim
Trim(s) ==
    LET keep == {i \in 1..Len(s) : ~IsJsSpace(s[i])}
    IN  IF keep = {} THEN <<>>
        ELSE LET lo == CHOOSE i \in keep : \A j \in keep : i <= j
                 hi == CHOOSE i \in keep : \A j \in keep : i >= j
             IN  SubSeq(s, lo, hi)

\* String.prototype.split with a one-character separator
Split(s, d) ==
    LET RECURSIVE go(_, _, _)
        go(i, cur, acc) ==
            IF i > Len(s) THEN Append(acc, cur)
            ELSE IF s[i] = d THEN go(i + 1, <<>>, Append(acc, cur))
            ELSE go(i + 1, Append(cur, s[i]), acc)
    IN  go(1, <<>>, <<>>)

\* tempValues.push(...value.split(delimiter)) over every value
SplitAll(values, d) ==
    LET RECURSIVE go(_, _)
        go(i, acc) ==
            IF i > Len(values) THEN acc
            ELSE go(i + 1, acc \o Split(values[i], d))
    IN  go(1, <<>>)

\* the cascading split over the delimiters, in order
CascadeSplit(values, ds) ==
    LET RECURSIVE go(_, _)
        go(k, vs) == IF k > Len(ds) THEN vs ELSE go(k + 1, SplitAll(vs, ds[k]))
    IN  go(1, values)

\* the value of a hexadecimal digit, -1 for any other character
Unhex(c) ==
    IF c >= 48 /\ c <= 57 THEN c - 48
    ELSE IF c >= 97 /\ c <= 102 THEN c - 87
    ELSE IF c >= 65 /\ c <= 70 THEN c - 55
    ELSE -1

\* Buffer.from(s, 'hex'): Len(s) \div 2 pairs at most, and decoding stops at
\* the first pair that is not two hexadecimal digits; it never throws
BufferFromHex(s) ==
    LET RECURSIVE go(_, _)
        go(i, acc) ==
            IF i > Len(s) \div 2 THEN acc
            ELSE IF Unhex(s[2 * i - 1]) = -1 \/ Unhex(s[2 * i]) = -1 THEN acc
            ELSE go(i + 1, Append(acc, 16 * Unhex(s[2 * i - 1]) + Unhex(s[2 * i])))
    IN  go(1, <<>>)

\* Buffer.toString('utf8') for buffers of ASCII bytes and stray bytes that
\* begin no UTF-8 sequence: the latter become U+FFFD, nothing throws
BufferToUtf8(bytes) ==
    [i \in 1..Len(bytes) |-> IF bytes[i] < 128 THEN bytes[i] ELSE ReplacementChar]

\* a JavaScript number: NaN or an integer
NaN == [nan |-> TRUE, val |-> 0]

Num(n) == [nan |-> FALSE, val |-> n]

\* the decimal value of a sequence of digits
DigitsValue(s) ==
    LET RECURSIVE go(_, _)
        go(i, acc) == IF i > Len(s) THEN acc ELSE go(i + 1, 10 * acc + (s[i] - 48))
    IN  go(1, 0)

\* the longest prefix of s, from position i on, that is made of digits
DigitPrefix(s, i) ==
    LET RECURSIVE go(_)
        go(j) == IF j <= Len(s) /\ IsDigit(s[j]) THEN go(j + 1) ELSE j - 1
    IN  SubSeq(s, i, go(i))

\* the longest prefix of s, from position i on, made of hexadecimal digits
HexValuePrefix(s, i) ==
    LET RECURSIVE go(_, _)
        go(j, acc) ==
            IF j <= Len(s) /\ Unhex(s[j]) # -1 THEN go(j + 1, 16 * acc + Unhex(s[j]))
            ELSE <<j - i, acc>>
    IN  go(i, 0)

\* parseInt(s) without a radix: leading white space and one sign are
\* skipped, a 0x prefix selects base 16, the longest prefix of digits is
\* the value and whatever follows is ignored; NaN when there is no digit
parseInt(s) ==
    LET lead == {i \in 1..Len(s) : ~IsJsSpace(s[i])}
        start == IF lead = {} THEN Len(s) + 1
                 ELSE CHOOSE i \in lead : \A j \in lead : i <= j
        signed == start <= Len(s) /\ s[start] \in {Plus, Minus}
        neg == signed /\ s[start] = Minus
        from == IF signed THEN start + 1 ELSE start
        isHex == from + 1 <= Len(s) /\ s[from] = 48 /\ s[from + 1] \in {120, 88}
        hex == HexValuePrefix(s, from + 2)
        ds == DigitPrefix(s, from)
    IN  IF isHex
        THEN IF hex[1] = 0 THEN NaN
             ELSE IF neg THEN Num(0 - hex[2]) ELSE Num(hex[2])
        ELSE IF Len(ds) = 0 THEN NaN
        ELSE IF neg THEN Num(0 - DigitsValue(ds)) ELSE Num(DigitsValue(ds))

(***************************************************************************)
(* extractDeviceKitIds.                                                    *)
(***************************************************************************)
\* the body of the loop over the tokens, for one token: the identifiers it
\* contributes (none or one)
TokenIds(singleValue) ==
    LET trimmedValue == Trim(singleValue)
        decodedString == BufferToUtf8(BufferFromHex(trimmedValue))
        parts == Split(decodedString, Dot)
    IN  IF trimmedValue = <<>> THEN <<>>
        ELSE IF trimmedValue[1] = Plus THEN <<>>
        ELSE IF Len(parts) > 1 /\ ~parseInt(parts[2]).nan
        THEN <<parseInt(parts[2]).val>>
        ELSE <<>>

extractDeviceKitIds(featureValue) ==
    IF ~featureValue.present \/ featureValue.text = <<>> THEN <<>>
    ELSE LET values == CascadeSplit(<<Trim(featureValue.text)>>, delimiters)
             RECURSIVE go(_, _)
             go(i, extractedIds) ==
                 IF i > Len(values) THEN extractedIds
                 ELSE go(i + 1, extractedIds \o TokenIds(values[i]))
         IN  go(1, <<>>)

(***************************************************************************)
(* The declarative variant: the CASE expression of load_accounts.sql, with *)
(* the PostgreSQL functions it calls.  A value is NULL, an integer, or the *)
(* statement raises an error.                                              *)
(***************************************************************************)
SqlNull == [kind |-> "null", val |-> 0]

SqlInt(n) == [kind |-> "int", val |-> n]

SqlError == [kind |-> "error", val |-> 0]

\* the white space PostgreSQL's hex decoder skips between bytes
IsPgHexSpace(c) == c \in {Space, Newline, Tab, 13}

\* isspace() of the C locale, as the integer input routine uses it
IsCSpace(c) == c \in {9, 10, 11, 12, 13, 32}

\* DECODE(s, 'hex'): white space between bytes is skipped; a character that
\* is no hexadecimal digit, or a digit without its pair, is an error
PgDecodeHex(s) ==
    LET RECURSIVE go(_, _)
        go(i, acc) ==
            IF i > Len(s) THEN [ok |-> TRUE, bytes |-> acc]
            ELSE IF IsPgHexSpace(s[i]) THEN go(i + 1, acc)
            ELSE IF Unhex(s[i]) = -1 THEN [ok |-> FALSE, bytes |-> <<>>]
            ELSE IF i + 1 > Len(s) THEN [ok |-> FALSE, bytes |-> <<>>]
            ELSE IF Unhex(s[i + 1]) = -1 THEN [ok |-> FALSE, bytes |-> <<>>]
            ELSE go(i + 2, Append(acc, 16 * Unhex(s[i]) + Unhex(s[i + 1])))
    IN  go(1, <<>>)

\* CONVERT_FROM(bytes, 'UTF8') for ASCII bytes and stray bytes that begin
\* no UTF-8 sequence: a zero byte or a stray byte is an error
PgConvertFromUtf8(bytes) ==
    IF \E i \in 1..Len(bytes) : bytes[i] = 0 \/ bytes[i] >= 128
    THEN [ok |-> FALSE, text |-> <<>>]
    ELSE [ok |-> TRUE, text |-> bytes]

\* SPLIT_PART(s, d, n): the n-th field, the empty string when there is none
SplitPart(s, d, n) ==
    LET fields == Split(s, d)
    IN  IF n <= Len(fields) THEN fields[n] ELSE <<>>

\* text::INTEGER : optional white space, an optional sign, at least one
\* digit, optional white space, and nothing else (the numbers of this model
\* stay far below 2^31, where the cast's range check passes)
PgCastInteger(s) ==
    LET lead == {i \in 1..Len(s) : ~IsCSpace(s[i])}
        start == IF lead = {} THEN Len(s) + 1
                 ELSE CHOOSE i \in lead : \A j \in lead : i <= j
        signed == start <= Len(s) /\ s[start] \in {Plus, Minus}
        neg == signed /\ s[start] = Minus
        from == IF signed THEN start + 1 ELSE start
        ds == DigitPrefix(s, from)
        rest == SubSeq(s, from + Len(ds), Len(s))
        v == IF neg THEN 0 - DigitsValue(ds) ELSE DigitsValue(ds)
    IN  IF Len(ds) = 0 THEN SqlError
        ELSE IF \E i \in 1..Len(rest) : ~IsCSpace(rest[i]) THEN SqlError
        ELSE SqlInt(v)

\* CASE WHEN feature_value IS NULL OR feature_value = '' OR feature_value ~ '^\+'
\*      THEN NULL
\*      ELSE SPLIT_PART(CONVERT_FROM(DECODE(feature_value, 'hex'), 'UTF8'), '.', 2)::INTEGER
SqlExtensions(feature_value) ==
    IF ~feature_value.present THEN SqlNull
    ELSE IF feature_value.text = <<>> THEN SqlNull
    ELSE IF feature_value.text[1] = Plus THEN SqlNull
    ELSE LET decoded == PgDecodeHex(feature_value.text)
             converted == PgConvertFromUtf8(decoded.bytes)
         IN  IF ~decoded.ok THEN SqlError
             ELSE IF ~converted.ok THEN SqlError
             ELSE PgCastInteger(SplitPart(converted.text, Dot, 2))

(***************************************************************************)
(* Inputs of the extractor: a field is a few tokens of a catalogue joined  *)
(* by delimiters.  Each token is given with what it is.                    *)
(***************************************************************************)
\* "2e31", the hex of ".1"
TokDotOne == [text |-> <<50, 101, 51, 49>>, class |-> "valid", id |-> 1]
\* "612e32", the hex of "a.2"
TokATwo == [text |-> <<54, 49, 50, 101, 51, 50>>, class |-> "valid", id |-> 2]
\* " 2E31", a valid token in upper case behind a blank
TokPadded == [text |-> <<32, 50, 69, 51, 49>>, class |-> "valid", id |-> 1]
\* "+2e31"
TokPlus == [text |-> <<43, 50, 101, 51, 49>>, class |-> "plus", id |-> 0]
TokEmpty == [text |-> <<>>, class |-> "empty", id |-> 0]
\* "2e31zz": two bytes of hex, then characters that are no hex digits
TokBadTail == [text |-> <<50, 101, 51, 49, 122, 122>>, class |-> "badhex", id |-> 0]
\* "2e313": an odd number of hex digits
TokOdd == [text |-> <<50, 101, 51, 49, 51>>, class |-> "badhex", id |-> 0]
\* "zz"
TokNotHex == [text |-> <<122, 122>>, class |-> "badhex", id |-> 0]
\* "3141", the hex of "1A": one segment
TokNoDot == [text |-> <<51, 49, 52, 49>>, class |-> "nodot", id |-> 0]
\* "2e61", the hex of ".a": a second segment that is no number
TokNotInt == [text |-> <<50, 101, 54, 49>>, class |-> "notint", id |-> 0]
\* "2e3161", the hex of ".1a": a second segment that only begins with a number
TokLenient == [text |-> <<50, 101, 51, 49, 54, 49>>, class |-> "trailing", id |-> 0]
\* "ff2e31": a byte that is not UTF-8, then ".1"
TokNotUtf8 == [text |-> <<102, 102, 50, 101, 51, 49>>, class |-> "badutf8", id |-> 0]

Catalogue ==
    {TokDotOne, TokATwo, TokPadded, TokPlus, TokEmpty, TokBadTail, TokOdd,
     TokNotHex, TokNoDot, TokNotInt, TokLenient, TokNotUtf8}

\* the delimiters a field may be written with
DelimiterSet == {Comma, Semicolon, Pipe, Newline, Tab}

\* the field made of the tokens toks, with seps[i] between toks[i] and toks[i+1]
Join(toks, seps) ==
    LET RECURSIVE go(_, _)
        go(i, acc) ==
            IF i > Len(toks) THEN acc
            ELSE go(i + 1, IF i = 1 THEN toks[i].text
                           ELSE acc \o <<seps[i - 1]>> \o toks[i].text)
    IN  go(1, <<>>)

SeqsUpTo(S, n) == UNION {[1..k -> S] : k \in 0..n}

(***************************************************************************)
(* The loader: CSV rows, records, and the storage table.                   *)
(***************************************************************************)
\* records.length > 100 selects the batch strategy
BatchThreshold == 100
\* account identifiers of the filler rows start above this number
FillerBase == 1000

\* the decimal digits of a natural number, as text
Digits(n) ==
    LET RECURSIVE go(_, _)
        go(m, acc) == IF m < 10 THEN <<48 + m>> \o acc
                      ELSE go(m \div 10, <<48 + (m % 10)>> \o acc)
    IN  go(n, <<>>)

\* rows of MoveAccount.csv as csv-parser hands them over: every column a
\* string, or undefined when the file has no such column
RowA == [account_id |-> <<49>>, emails |-> Str(<<97>>),
         phone_numbers |-> Str(<<55>>), extensions |-> Absent]
RowB == [account_id |-> <<49>>, emails |-> Str(<<98>>),
         phone_numbers |-> Str(<<>>), extensions |-> Str(<<50, 101, 51, 49>>)]
\* an account identifier that is no number
RowBad == [account_id |-> <<120>>, emails |-> Str(<<97>>),
           phone_numbers |-> Absent, extensions |-> Absent]

FillerRow(k) == [account_id |-> Digits(FillerBase + k), emails |-> Str(<<102>>),
                 phone_numbers |-> Absent, extensions |-> Absent]

Filler(n) == [k \in 1..n |-> FillerRow(k)]

RowSet == {RowA, RowB, RowBad}

\* the files of the model: a few free rows, followed by no row or by as many
\* distinct rows as the threshold (so that the file of no free row has
\* exactly BatchThreshold rows, and the others more)
Files ==
    {prefix \o Filler(n) : prefix \in SeqsUpTo(RowSet, MaxPrefix),
                           n \in {0, BatchThreshold}}

\* row.x || ''
OrEmpty(cell) == IF cell.present THEN cell.text ELSE <<>>

\* the 'data' handler of loadCsvData: one record per row
ProcessRow(row) ==
    [account_id |-> parseInt(row.account_id),
     emails |-> OrEmpty(row.emails),
     phone_numbers |-> OrEmpty(row.phone_numbers),
     extensions |-> OrEmpty(row.extensions),
     created_by |-> "By system"]

loadCsvData(rows) == [k \in 1..Len(rows) |-> ProcessRow(rows[k])]

\* updated_at of a stored row: left to the column's default by an INSERT
\* that does not name it, or CURRENT_TIMESTAMP, the start of the transaction
\* that updated the row
Defaulted == [byDefault |-> TRUE, at |-> 0]

Stamp(t) == [byDefault |-> FALSE, at |-> t]

\* the statement raises an error for this record: NaN is sent as the text
\* 'NaN', which the integer column account_id rejects (the other columns
\* are taken to accept the text they are sent; the table's definition is
\* not part of the sources)
WriteFails(record) == record.account_id.nan

RowsOf(tbl, id) == {r \in tbl : r.account_id = id}

\* the row INSERT ... ON CONFLICT (account_id) DO UPDATE SET ... writes for
\* one record: inserted with the column default of updated_at when the table
\* has no row of that account_id, else every field overwritten and
\* updated_at = CURRENT_TIMESTAMP
UpsertedRow(tbl, record, ts) ==
    [account_id |-> record.account_id.val,
     emails |-> record.emails,
     phone_numbers |-> record.phone_numbers,
     extensions |-> record.extensions,
     created_by |-> record.created_by,
     updated_at |-> IF RowsOf(tbl, record.account_id.val) = {} THEN Defaulted
                    ELSE Stamp(ts)]

\* the single-row statement, for a record the table accepts
Upsert(tbl, record, ts) ==
    (tbl \ RowsOf(tbl, record.account_id.val)) \cup {UpsertedRow(tbl, record, ts)}

\* the single-row statement raises an error: the record is one the table
\* rejects, or an earlier statement of the transaction failed (the
\* transaction is aborted and commands are ignored until it ends)
StatementFails(state, record) == state = "aborted" \/ WriteFails(record)

\* the multi-row statement raises an error: a record the table rejects, or
\* two records with one account_id (ON CONFLICT DO UPDATE cannot affect a
\* row a second time within one command)
BatchStatementFails(recs) ==
    \/ \E k \in 1..Len(recs) : WriteFails(recs[k])
    \/ \E j, k \in 1..Len(recs) :
          j < k /\ recs[j].account_id.val = recs[k].account_id.val

\* the multi-row statement, when it succeeds (no two records then share an
\* account_id, so every record meets the table as it was before the command)
BatchUpsert(tbl, recs, ts) ==
    LET ids == {recs[k].account_id.val : k \in 1..Len(recs)}
    IN  {r \in tbl : r.account_id \notin ids}
        \cup {UpsertedRow(tbl, recs[k], ts) : k \in 1..Len(recs)}

\* a threshold test that is off by one
UseBatchAtThreshold(n) == n >= BatchThreshold

\* if (records.length > 100)
UseBatch(n) == n > BatchThreshold

(***************************************************************************)
(* State.                                                                  *)
(***************************************************************************)
VARIABLES
    \* the database, which outlives the process
    table,         \* the committed rows of customer.esac_account_contacts
    now,           \* the server's clock; one tick per run
    \* the inputs of one run of the script
    run,           \* how many times the script was started
    fileExists,    \* MoveAccount.csv is there
    readError,     \* the read stream emits 'error'
    csv,           \* the rows of the file
    lost,          \* the connection to the server is lost, for the rest of the run
    \* the process
    pc,            \* where main (or the function it awaits) is
    records,       \* what loadCsvData resolved with
    i,             \* the position of the for loop over records
    successCount,
    errorCount,
    thrown,        \* an exception is pending while the finally block runs
    calls,         \* pool.connect() and client.query() calls made by this run
    checkedOut,    \* clients checked out of the pool and not released
    acquired,      \* clients pool.connect() resolved with, this run
    released,      \* client.release() calls, this run
    poolEnded,     \* pool.end() has completed
    exitCode,      \* the exit status, meaningful once pc = "exited"
    \* the client's session on the server
    txState,       \* "idle", "active", or "aborted" (a statement failed)
    work,          \* the table as the open transaction sees it
    txnTime,       \* CURRENT_TIMESTAMP of the open transaction
    totalCount,    \* what verification read as the number of rows
    \* a record of the run, for the properties
    tableAtStart,  \* the table when the run began
    strategies,    \* the write functions main called
    verifyRan,     \* verifyDataInsertion was called
    rollbacks      \* ROLLBACK statements sent

lvars == <<table, now, run, fileExists, readError, csv, lost, pc, records, i,
           successCount, errorCount, thrown, calls, checkedOut, acquired,
           released, poolEnded, exitCode, txState, work, txnTime,
           totalCount, tableAtStart, strategies, verifyRan, rollbacks>>

VARIABLES
    tokens,        \* the tokens the field was made of
    seps,          \* the delimiters between them
    featureValue,  \* the field handed to both extractors
    xpc,           \* "input", "js" (extractDeviceKitIds returned), "sql"
    extractedIds,  \* what extractDeviceKitIds returned
    sqlValue       \* what the SQL expression evaluated to

xvars == <<tokens, seps, featureValue, xpc, extractedIds, sqlValue>>

vars == <<lvars, xvars>>

inputs == <<run, now, fileExists, readError, csv, tableAtStart>>
session == <<txState, work, txnTime>>
clients == <<checkedOut, acquired, released>>
counters == <<i, successCount, errorCount>>
history == <<strategies, verifyRan, rollbacks>>

(***************************************************************************)
(* The loader's actions: one per await of the script.                      *)
(***************************************************************************)
LInit ==
    /\ table = {}
    /\ now = 0
    /\ run = 0
    /\ fileExists = FALSE
    /\ readError = FALSE
    /\ csv = <<>>
    /\ lost = FALSE
    /\ pc = "idle"
    /\ records = <<>>
    /\ i = 1
    /\ successCount = 0
    /\ errorCount = 0
    /\ thrown = FALSE
    /\ calls = 0
    /\ checkedOut = 0
    /\ acquired = 0
    /\ released = 0
    /\ poolEnded = FALSE
    /\ exitCode = 0
    /\ txState = "idle"
    /\ work = {}
    /\ txnTime = 0
    /\ tableAtStart = {}
    /\ totalCount = 0
    /\ strategies = {}
    /\ verifyRan = FALSE
    /\ rollbacks = 0

\* what one start of the script finds: the file, missing, unreadable, or
\* with its rows
RunInputs ==
    {[exists |-> TRUE, readError |-> FALSE, csv |-> f] : f \in Files}
    \cup {[exists |-> FALSE, readError |-> FALSE, csv |-> <<>>],
          [exists |-> TRUE, readError |-> TRUE, csv |-> <<>>]}

\* the process, its pool and its session as a start of the script finds them
FreshProcess ==
    /\ records' = <<>>
    /\ i' = 1
    /\ successCount' = 0
    /\ errorCount' = 0
    /\ thrown' = FALSE
    /\ calls' = 0
    /\ checkedOut' = 0
    /\ acquired' = 0
    /\ released' = 0
    /\ poolEnded' = FALSE
    /\ exitCode' = 0
    /\ txState' = "idle"
    /\ work' = {}
    /\ txnTime' = 0
    /\ totalCount' = 0
    /\ strategies' = {}
    /\ verifyRan' = FALSE
    /\ rollbacks' = 0
    /\ lost' = FALSE

\* `node load_accounts_to_database.js`: a fresh process, a fresh (lazy)
\* pool, the same database
StartRun ==
    /\ pc = "idle"
    /\ run < MaxRuns
    /\ run' = run + 1
    /\ now' = now + 1
    /\ \E inp \in RunInputs :
          /\ fileExists' = inp.exists
          /\ readError' = inp.readError
          /\ csv' = inp.csv
    /\ pc' = "main"
    /\ tableAtStart' = table
    /\ FreshProcess
    /\ UNCHANGED <<table, xvars>>

\* the exited process is gone, and with it everything but the database
ProcessGone ==
    /\ pc = "exited"
    /\ pc' = "idle"
    /\ fileExists' = FALSE
    /\ readError' = FALSE
    /\ csv' = <<>>
    /\ tableAtStart' = table
    /\ FreshProcess
    /\ UNCHANGED <<table, run, now, xvars>>

\* the outcomes of the storage call about to be made: TRUE when it fails
\* because the connection is lost, which it then stays
Outcomes ==
    IF lost THEN {TRUE}
    ELSE IF calls < MaxFaultAt THEN {FALSE, TRUE}
    ELSE {FALSE}

\* a check that reports the missing file and goes on to the verification
MainCheckFileFallsThrough ==
    /\ pc = "main"
    /\ pc' = IF fileExists THEN "load" ELSE "ver_connect"
    /\ UNCHANGED <<table, inputs, session, clients, counters, history, records,
                   thrown, calls, lost, poolEnded, exitCode, totalCount, xvars>>

\* if (!fs.existsSync(csvFilePath)) throw ...
MainCheckFile ==
    /\ pc = "main"
    /\ pc' = IF fileExists THEN "load" ELSE "catch"
    /\ UNCHANGED <<table, inputs, session, clients, counters, history, records,
                   thrown, calls, lost, poolEnded, exitCode, totalCount, xvars>>

\* const records = await loadCsvData(csvFilePath)
MainLoad ==
    /\ pc = "load"
    /\ IF readError
       THEN pc' = "catch" /\ UNCHANGED records
       ELSE pc' = "choose" /\ records' = loadCsvData(csv)
    /\ UNCHANGED <<table, inputs, session, clients, counters, history,
                   thrown, calls, lost, poolEnded, exitCode, totalCount, xvars>>

\* the return on no record, and the choice of the write function
MainChoose ==
    /\ pc = "choose"
    /\ pc' = IF Len(records) = 0 THEN "finally"
             ELSE IF UseBatch(Len(records)) THEN "bat_connect"
             ELSE "ins_connect"
    /\ UNCHANGED <<table, inputs, session, clients, counters, history, records,
                   thrown, calls, lost, poolEnded, exitCode, totalCount, xvars>>

\* const client = await pool.connect(), before the try block of fn
Connect(fn, at, next) ==
    /\ pc = at
    /\ calls' = calls + 1
    /\ strategies' = IF fn = "verify" THEN strategies ELSE strategies \cup {fn}
    /\ verifyRan' = (verifyRan \/ fn = "verify")
    /\ \E down \in Outcomes :
          /\ lost' = down
          /\ IF down
             THEN pc' = "catch" /\ UNCHANGED clients
             ELSE /\ pc' = next
                  /\ checkedOut' = checkedOut + 1
                  /\ acquired' = acquired + 1
                  /\ UNCHANGED released
    /\ UNCHANGED <<table, inputs, session, counters, rollbacks, records,
                   thrown, poolEnded, exitCode, totalCount, xvars>>

\* await client.query('BEGIN'), and the declarations that follow it
Begin(at, next, onError) ==
    /\ pc = at
    /\ calls' = calls + 1
    /\ \E down \in Outcomes :
          /\ lost' = down
          /\ IF down
             THEN pc' = onError /\ UNCHANGED session
             ELSE /\ pc' = next
                  /\ txState' = "active"
                  /\ work' = table
                  /\ txnTime' = now
    /\ i' = 1
    /\ successCount' = 0
    /\ errorCount' = 0
    /\ UNCHANGED <<table, inputs, clients, history, records,
                   thrown, poolEnded, exitCode, totalCount, xvars>>

\* what COMMIT leaves in the table: the work of an active transaction; a
\* transaction that a failed statement aborted is rolled back instead
CommitResult(tbl, wrk, state) == IF state = "active" THEN wrk ELSE tbl

\* await client.query('COMMIT')
Commit(at, next, onError) ==
    /\ pc = at
    /\ calls' = calls + 1
    /\ \E down \in Outcomes :
          /\ lost' = down
          /\ IF down
             THEN pc' = onError /\ UNCHANGED <<table, session, thrown>>
             ELSE /\ pc' = next
                  /\ table' = CommitResult(table, work, txState)
                  /\ txState' = "idle"
                  /\ thrown' = FALSE
                  /\ UNCHANGED <<work, txnTime>>
    /\ UNCHANGED <<inputs, clients, counters, history, records,
                   poolEnded, exitCode, totalCount, xvars>>

\* catch (error) { await client.query('ROLLBACK'); ...; throw error }
\* whether ROLLBACK succeeds or throws, an error leaves the catch block
Rollback(at, next) ==
    /\ pc = at
    /\ calls' = calls + 1
    /\ rollbacks' = rollbacks + 1
    /\ \E down \in Outcomes :
          /\ lost' = down
          /\ txState' = IF down THEN txState ELSE "idle"
    /\ thrown' = TRUE
    /\ pc' = next
    /\ UNCHANGED <<table, inputs, work, txnTime, clients, counters, strategies,
                   verifyRan, records, poolEnded, exitCode, totalCount, xvars>>

\* a release at the end of the try block instead of in a finally block
ReleaseUnlessThrown(at, next) ==
    /\ pc = at
    /\ checkedOut' = IF thrown THEN checkedOut ELSE checkedOut - 1
    /\ released' = IF thrown THEN released ELSE released + 1
    /\ UNCHANGED acquired
    /\ pc' = IF thrown THEN "catch" ELSE next
    /\ UNCHANGED <<table, inputs, session, counters, history, records,
                   thrown, calls, lost, poolEnded, exitCode, totalCount, xvars>>

\* finally { client.release() }, then the pending error or the return
Release(at, next) ==
    /\ pc = at
    /\ checkedOut' = checkedOut - 1
    /\ released' = released + 1
    /\ UNCHANGED acquired
    /\ pc' = IF thrown THEN "catch" ELSE next
    /\ UNCHANGED <<table, inputs, session, counters, history, records,
                   thrown, calls, lost, poolEnded, exitCode, totalCount, xvars>>

(* insertDataToDatabase *)
InsertConnect == Connect("perRow", "ins_connect", "ins_begin")

InsertBegin == Begin("ins_begin", "ins_loop", "ins_rollback")

\* one turn of the for loop: the statement for records[i], its error caught
InsertRecord ==
    /\ pc = "ins_loop"
    /\ i <= Len(records)
    /\ calls' = calls + 1
    /\ \E down \in Outcomes :
          /\ lost' = down
          /\ IF down \/ StatementFails(txState, records[i])
             THEN /\ errorCount' = errorCount + 1
                  /\ txState' = IF down THEN txState ELSE "aborted"
                  /\ UNCHANGED <<work, successCount>>
             ELSE /\ work' = Upsert(work, records[i], txnTime)
                  /\ successCount' = successCount + 1
                  /\ UNCHANGED <<txState, errorCount>>
    /\ i' = i + 1
    /\ UNCHANGED <<table, inputs, txnTime, clients, history, records, pc,
                   thrown, poolEnded, exitCode, totalCount, xvars>>

InsertCommit ==
    /\ i > Len(records)
    /\ Commit("ins_loop", "ins_release", "ins_rollback")

InsertRollback == Rollback("ins_rollback", "ins_release")

InsertRelease == Release("ins_release", "ver_connect")

(* batchInsertDataToDatabase *)
BatchConnect == Connect("batch", "bat_connect", "bat_begin")

BatchBegin == Begin("bat_begin", "bat_query", "bat_rollback")

\* a batch statement whose error is caught and logged, as in the for loop
\* of insertDataToDatabase
BatchQuerySwallowsError ==
    /\ pc = "bat_query"
    /\ calls' = calls + 1
    /\ \E down \in Outcomes :
          /\ lost' = down
          /\ IF down \/ BatchStatementFails(records)
             THEN /\ txState' = IF down THEN txState ELSE "aborted"
                  /\ UNCHANGED work
             ELSE /\ work' = BatchUpsert(work, records, txnTime)
                  /\ UNCHANGED txState
    /\ pc' = "bat_commit"
    /\ UNCHANGED <<table, inputs, txnTime, clients, counters, history, records,
                   thrown, poolEnded, exitCode, totalCount, xvars>>

\* await client.query(batchInsertQuery, params): one statement for all records
BatchQuery ==
    /\ pc = "bat_query"
    /\ calls' = calls + 1
    /\ \E down \in Outcomes :
          /\ lost' = down
          /\ IF down \/ BatchStatementFails(records)
             THEN /\ pc' = "bat_rollback"
                  /\ txState' = IF down THEN txState ELSE "aborted"
                  /\ UNCHANGED work
             ELSE /\ pc' = "bat_commit"
                  /\ work' = BatchUpsert(work, records, txnTime)
                  /\ UNCHANGED txState
    /\ UNCHANGED <<table, inputs, txnTime, clients, counters, history, records,
                   thrown, poolEnded, exitCode, totalCount, xvars>>

BatchCommit == Commit("bat_commit", "bat_release", "bat_rollback")

BatchRollback == Rollback("bat_rollback", "bat_release")

BatchRelease == Release("bat_release", "ver_connect")

(* verifyDataInsertion *)
VerifyConnect == Connect("verify", "ver_connect", "ver_count")

\* SELECT COUNT(*); an error is caught and logged
VerifyCount ==
    /\ pc = "ver_count"
    /\ calls' = calls + 1
    /\ \E down \in Outcomes :
          /\ lost' = down
          /\ IF down
             THEN pc' = "ver_release" /\ UNCHANGED totalCount
             ELSE pc' = "ver_sample" /\ totalCount' = Cardinality(table)
    /\ UNCHANGED <<table, inputs, session, clients, counters, history, records,
                   thrown, poolEnded, exitCode, xvars>>

\* SELECT ... ORDER BY account_id LIMIT 5, printed
VerifySample ==
    /\ pc = "ver_sample"
    /\ calls' = calls + 1
    /\ \E down \in Outcomes : lost' = down
    /\ pc' = "ver_release"
    /\ UNCHANGED <<table, inputs, session, clients, counters, history, records,
                   thrown, poolEnded, exitCode, totalCount, xvars>>

VerifyRelease == Release("ver_release", "finally")

(* the end of main *)
\* catch (error) { ...; process.exit(1) }: the process ends there, and the
\* finally block that follows never runs
MainCatch ==
    /\ pc = "catch"
    /\ exitCode' = 1
    /\ pc' = "exited"
    /\ UNCHANGED <<table, inputs, session, clients, counters, history, records,
                   thrown, calls, lost, poolEnded, totalCount, xvars>>

\* finally { await pool.end() }
MainFinally ==
    /\ pc = "finally"
    /\ poolEnded' = TRUE
    /\ pc' = "returned"
    /\ UNCHANGED <<table, inputs, session, clients, counters, history, records,
                   thrown, calls, lost, exitCode, totalCount, xvars>>

\* main has returned and nothing is pending: node exits with status 0
ProcessExit ==
    /\ pc = "returned"
    /\ pc' = "exited"
    /\ UNCHANGED <<table, inputs, session, clients, counters, history, records,
                   thrown, calls, lost, poolEnded, exitCode, totalCount, xvars>>

\* the extractor's variables while the loader runs
XIdle ==
    /\ tokens = <<>>
    /\ seps = <<>>
    /\ featureValue = Absent
    /\ xpc = "off"
    /\ extractedIds = <<>>
    /\ sqlValue = SqlNull

Init == LInit /\ XIdle

Next ==
    \/ StartRun
    \/ MainCheckFile
    \/ MainLoad
    \/ MainChoose
    \/ InsertConnect
    \/ InsertBegin
    \/ InsertRecord
    \/ InsertCommit
    \/ InsertRollback
    \/ InsertRelease
    \/ BatchConnect
    \/ BatchBegin
    \/ BatchQuery
    \/ BatchCommit
    \/ BatchRollback
    \/ BatchRelease
    \/ VerifyConnect
    \/ VerifyCount
    \/ VerifySample
    \/ VerifyRelease
    \/ MainCatch
    \/ MainFinally
    \/ ProcessExit
    \/ ProcessGone

Spec == Init /\ [][Next]_vars

(***************************************************************************)
(* The two extractors, applied to one field.                               *)
(***************************************************************************)
XInit ==
    /\ tokens \in SeqsUpTo(Catalogue, MaxTokens)
    /\ seps \in [1..(IF Len(tokens) = 0 THEN 0 ELSE Len(tokens) - 1) -> DelimiterSet]
    /\ featureValue \in (IF Len(tokens) = 0 THEN {Absent, Str(<<>>)}
                         ELSE {Str(Join(tokens, seps))})
    /\ xpc = "input"
    /\ extractedIds = <<>>
    /\ sqlValue = SqlNull
    /\ LInit

\* the Node script's extractor is applied to the field
RunExtractor ==
    /\ xpc = "input"
    /\ extractedIds' = extractDeviceKitIds(featureValue)
    /\ xpc' = "js"
    /\ UNCHANGED <<tokens, seps, featureValue, sqlValue, lvars>>

\* the SQL script's expression is evaluated on the same field
RunSqlExpression ==
    /\ xpc = "js"
    /\ sqlValue' = SqlExtensions(featureValue)
    /\ xpc' = "sql"
    /\ UNCHANGED <<tokens, seps, featureValue, extractedIds, lvars>>

XNext == RunExtractor \/ RunSqlExpression

SpecExtract == XInit /\ [][XNext]_vars

(***************************************************************************)
(* Properties of the loader, checked under Spec.                           *)
(***************************************************************************)
\* the positions of main itself, where no function holds a client
MainLevel ==
    {"idle", "main", "load", "choose", "ins_connect", "bat_connect",
     "ver_connect", "catch", "finally", "returned", "exited"}

\* the run read its file and no storage call failed for a lost connection
CleanRun == fileExists /\ ~readError /\ ~lost

\* the positions of records that the table rejects
FailingPositions == {k \in 1..Len(records) : WriteFails(records[k])}

\* the stored row equals the record, field by field
SameFields(row, record) ==
    /\ row.emails = record.emails
    /\ row.phone_numbers = record.phone_numbers
    /\ row.extensions = record.extensions
    /\ row.created_by = record.created_by

\* C1: a run that loaded one record twice and no other record of that
\* account identifier after it (all its records acceptable, the connection
\* never lost) ends with exactly one row of that account identifier, whose
\* fields are those of the record and whose updated_at is the time of the
\* transaction that loaded it the second time; and no table ever holds two
\* rows of one account identifier.
C1_ReloadLeavesOneRow ==
    /\ \A r1, r2 \in table : r1.account_id = r2.account_id => r1 = r2
    /\ (pc = "exited" /\ CleanRun /\ FailingPositions = {})
       => \A j, k \in 1..Len(records) :
             (/\ j < k
              /\ records[j] = records[k]
              /\ \A m \in (k + 1)..Len(records) :
                    records[m].account_id # records[k].account_id)
             => \E row \in table :
                   /\ RowsOf(table, records[k].account_id.val) = {row}
                   /\ SameFields(row, records[k])
                   /\ row.updated_at = Stamp(txnTime)

\* C2: when insertDataToDatabase has returned from a run in which exactly
\* one of the N records is rejected by the table, it has counted N-1
\* successes and 1 error, and the N-1 other records are in the table.
C2_PerRowSkipsOneFailure ==
    (/\ pc = "ver_connect"
     /\ strategies = {"perRow"}
     /\ CleanRun
     /\ Cardinality(FailingPositions) = 1)
    => /\ successCount = Len(records) - 1
       /\ errorCount = 1
       /\ \A k \in (1..Len(records)) \ FailingPositions :
             RowsOf(table, records[k].account_id.val) # {}

\* C3: in a run of batchInsertDataToDatabase over records whose statement
\* the server rejects, the table stays what it was when the run began,
\* the COMMIT and the verification are never reached, the error leaves the
\* function after a ROLLBACK was sent, and the process exits with status 1.
C3_BatchAllOrNothing ==
    ("batch" \in strategies /\ BatchStatementFails(records))
    => /\ table = tableAtStart
       /\ pc \notin {"bat_commit", "ver_connect", "ver_count", "ver_sample",
                     "ver_release", "finally", "returned"}
       /\ (pc = "bat_release" => thrown /\ rollbacks = 1)
       /\ (pc = "exited" => exitCode = 1)

C3_Witness ==
    /\ pc = "exited"
    /\ strategies = {"batch"}
    /\ FailingPositions # {}
    /\ ~lost
    /\ rollbacks = 1
    /\ exitCode = 1
    /\ tableAtStart # {}

\* C4: the process exits, with whatever status, only after pool.end() has
\* completed.
C4_ExitAfterPoolEnd == pc = "exited" => poolEnded

\* C5: at most one client is checked out at any moment; inside a function
\* that acquired a client exactly that one is out, and once the function is
\* left, by return or by error, every client acquired was released, once.
C5_ClientsReleased ==
    /\ checkedOut \in {0, 1}
    /\ released <= acquired
    /\ pc \in MainLevel => (checkedOut = 0 /\ released = acquired)
    /\ pc \notin MainLevel => (checkedOut = 1 /\ acquired = released + 1)

\* the ROLLBACK itself failed, and the client was released all the same
C5_Witness ==
    /\ pc = "catch"
    /\ lost
    /\ rollbacks = 1
    /\ acquired = 1
    /\ released = 1
    /\ checkedOut = 0

\* C6: a run that finds no input file makes no storage call, acquires no
\* client, starts neither write function nor the verification, leaves the
\* table as it was, and ends in main's catch block with status 1.
C6_MissingFileNoStorage ==
    (pc # "idle" /\ ~fileExists)
    => /\ calls = 0
       /\ acquired = 0
       /\ strategies = {}
       /\ ~verifyRan
       /\ table = tableAtStart
       /\ pc \in {"main", "catch", "exited"}
       /\ (pc = "exited" => exitCode = 1)

C6_Witness ==
    /\ pc = "exited"
    /\ ~fileExists
    /\ exitCode = 1
    /\ calls = 0
    /\ tableAtStart # {}

\* C10: a run calls at most one write function; the batch function only for
\* more than BatchThreshold records and the per-row function only for 1 to
\* BatchThreshold records, and once main has chosen, the function that
\* count selects was called; with no record, no write function and no
\* verification is called.
C10_OneStrategyByCount ==
    /\ Cardinality(strategies) <= 1
    /\ "batch" \in strategies => Len(records) > BatchThreshold
    /\ "perRow" \in strategies
       => (Len(records) >= 1 /\ Len(records) <= BatchThreshold)
    /\ (Len(records) > BatchThreshold /\ pc \notin {"choose", "bat_connect"})
       => strategies = {"batch"}
    /\ (Len(records) >= 1 /\ Len(records) <= BatchThreshold
        /\ pc \notin {"choose", "ins_connect"})
       => strategies = {"perRow"}
    /\ Len(records) = 0 => (strategies = {} /\ ~verifyRan /\ calls = 0)

\* a file of exactly BatchThreshold rows went through the per-row function
C10_Witness ==
    /\ pc = "exited"
    /\ Len(records) = BatchThreshold
    /\ strategies = {"perRow"}
    /\ verifyRan
    /\ exitCode = 0

(***************************************************************************)
(* Properties of the extractors, checked under SpecExtract.                *)
(***************************************************************************)
\* the token is no hexadecimal text: an odd number of characters, or a
\* character that is no hexadecimal digit
InvalidHex(text) ==
    LET t == Trim(text)
    IN  Len(t) % 2 = 1 \/ \E k \in 1..Len(t) : Unhex(t[k]) = -1

\* the text the token decodes to has no second '.'-delimited segment
FewerThanTwoSegments(text) ==
    Len(Split(BufferToUtf8(BufferFromHex(Trim(text))), Dot)) < 2

\* what the tokens contribute when the tokens of the set skip are skipped
\* and each other token contributes what it contributes alone
Contributions(toks, skip(_)) ==
    LET RECURSIVE go(_, _)
        go(k, acc) ==
            IF k > Len(toks) THEN acc
            ELSE go(k + 1, IF skip(toks[k].text) THEN acc
                           ELSE acc \o TokenIds(toks[k].text))
    IN  go(1, <<>>)

SkippedByC7(text) == InvalidHex(text) \/ FewerThanTwoSegments(text)

\* C7: a token whose hex decoding is invalid, or whose decoded text has
\* fewer than two segments, contributes no identifier, and the other tokens
\* of the field contribute as they do alone.
C7_InvalidTokensSkipped ==
    (xpc # "input" /\ Len(tokens) > 0)
    => extractedIds = Contributions(tokens, SkippedByC7)

\* the identifiers of the valid tokens, in token order
ValidIds(toks) ==
    LET RECURSIVE go(_, _)
        go(k, acc) ==
            IF k > Len(toks) THEN acc
            ELSE go(k + 1, IF toks[k].class = "valid" THEN Append(acc, toks[k].id)
                           ELSE acc)
    IN  go(1, <<>>)

C9_ExtractorsAgree ==
    xpc = "sql"
    => IF sqlValue.kind = "int" THEN extractedIds = <<sqlValue.val>>
       ELSE extractedIds = <<>>

====
